---- MODULE Spec2Model ----
(***************************************************************************)
(* A model of the memcached text-protocol client (package memcached):      *)
(* TransportSocket (connect / Close / Write / Read over a bufio.Reader),   *)
(* key.isValid, and Memcached.Set / Get / Delete / Close / command.        *)
(*                                                                         *)
(* A byte is a short string naming it ("SP" is 0x20, "CR" 0x0D, "LF" 0x0A, *)
(* "NUL" 0x00, ...); a Go string or []byte is a sequence of bytes.         *)
(***************************************************************************)
EXTENDS Integers, Sequences, FiniteSets, TLC

VARIABLES conn,     \* t.conn: "nil", "open", or "closed" (closed, pointer kept)
          rbuf,     \* bytes buffered in t.reader (bufio.Reader), unread
          wire,     \* bytes the server has sent that t.reader has not yet taken
          store,    \* the server's entry for each key (NoValue when absent)
          faults,   \* calls so far that met a network fault or an undocumented reply
          dials,    \* number of net.Dial calls made so far
          closes,   \* number of conn.Close() calls made so far
          calls,    \* number of client operations called so far
          last      \* the last call: its inputs, its results, what it did

vars == <<conn, rbuf, wire, store, faults, dials, closes, calls, last>>

(***************************************************************************)
(* Bytes and strings                                                       *)
(***************************************************************************)

\* The numeric value of a byte.
Code(b) ==
    CASE b = "NUL" -> 0
      [] b = "TAB" -> 9
      [] b = "LF"  -> 10
      [] b = "VT"  -> 11
      [] b = "FF"  -> 12
      [] b = "CR"  -> 13
      [] b = "US"  -> 31
      [] b = "SP"  -> 32
      [] b = "!"   -> 33
      [] b = "~"   -> 126
      [] b = "DEL" -> 127
      [] b = "HI"  -> 200
      [] OTHER     -> 100    \* a letter, a digit, a sign: printable ASCII

Take(s, n) == SubSeq(s, 1, IF n < Len(s) THEN n ELSE Len(s))

Drop(s, n) == SubSeq(s, n + 1, Len(s))

HasPrefix(s, p) == Len(s) >= Len(p) /\ SubSeq(s, 1, Len(p)) = p

\* make([]byte, n): n zero bytes.
Zeros(n) == [i \in 1..n |-> "NUL"]

Repeat(b, n) == [i \in 1..n |-> b]

\* Position of the first b in s, 0 when there is none.
IndexOf(s, b) ==
    IF \E i \in 1..Len(s) : s[i] = b
    THEN CHOOSE i \in 1..Len(s) : s[i] = b /\ \A j \in 1..(i - 1) : s[j] # b
    ELSE 0

CRLF == <<"CR", "LF">>

(***************************************************************************)
(* key.isValid                                                             *)
(***************************************************************************)

MaxKeyLen == 250

\* The regular expression [\x00-\x1F\x7F\s]; RE2's \s is [\t\n\f\r ].
ReMatchByte(b) ==
    \/ Code(b) \in 0..31
    \/ Code(b) = 127
    \/ Code(b) \in {9, 10, 12, 13, 32}

ReMatchString(k) == \E i \in 1..Len(k) : ReMatchByte(k[i])

isValid_LengthOnly(k) ==
    IF Len(k) = 0 THEN "empty key"
    ELSE IF Len(k) > MaxKeyLen THEN "key too long"
    ELSE "nil"

isValid_RegexFirst(k) ==
    IF Len(k) = 0 THEN "empty key"
    ELSE IF ReMatchString(k) THEN "invalid key"
    ELSE IF Len(k) > MaxKeyLen THEN "key too long"
    ELSE "nil"

\* (k *key) isValid: "nil" or the message of the first failing rule.
isValid(k) ==
    IF Len(k) = 0 THEN "empty key"
    ELSE IF Len(k) > MaxKeyLen THEN "key too long"
    ELSE IF ReMatchString(k) THEN "invalid key"
    ELSE "nil"

(***************************************************************************)
(* fmt.Sprintf("%d") and fmt.Sscanf                                        *)
(***************************************************************************)

Digits == <<"0", "1", "2", "3", "4", "5", "6", "7", "8", "9">>

DigitVal(b) == (CHOOSE d \in 1..10 : Digits[d] = b) - 1

RECURSIVE FmtNat(_)
FmtNat(n) ==
    IF n < 10 THEN <<Digits[n + 1]>>
    ELSE FmtNat(n \div 10) \o <<Digits[(n % 10) + 1]>>

\* The verb %d of Sprintf: decimal, with a minus sign when negative.
FmtInt(n) == IF n < 0 THEN <<"-">> \o FmtNat(0 - n) ELSE FmtNat(n)

RECURSIVE ParseNat(_)
ParseNat(ds) ==
    IF Len(ds) = 0 THEN 0
    ELSE 10 * ParseNat(SubSeq(ds, 1, Len(ds) - 1)) + DigitVal(ds[Len(ds)])

\* fmt's isSpace: the space bytes other than the newline, and all of them.
SpaceNotNL == {"SP", "TAB", "VT", "FF", "CR"}

Space == SpaceNotNL \cup {"LF"}

DigitSet == {Digits[d] : d \in 1..10}

\* Length of the longest prefix of s whose bytes are all in S (inS), or all
\* outside S (~inS).
RunLen(s, S, inS) ==
    IF \E i \in 1..Len(s) : (s[i] \in S) # inS
    THEN (CHOOSE i \in 1..Len(s) :
            /\ (s[i] \in S) # inS
            /\ \A j \in 1..(i - 1) : (s[j] \in S) = inS) - 1
    ELSE Len(s)

\* A space of the format standing alone: the input must be at its end or at
\* a space other than the newline; the run of such spaces is consumed.
FormatSpace(s) ==
    IF Len(s) = 0 THEN [ok |-> TRUE, rest |-> s]
    ELSE IF s[1] \notin SpaceNotNL THEN [ok |-> FALSE, rest |-> s]
    ELSE [ok |-> TRUE, rest |-> Drop(s, RunLen(s, SpaceNotNL, TRUE))]

\* The verb %s: a non-empty run of non-space bytes (leading spaces were
\* consumed by the format's space; a newline or the end of input fails).
ScanString(s) ==
    LET n == RunLen(s, Space, FALSE)
    IN  IF n = 0 THEN [ok |-> FALSE, val |-> <<>>, rest |-> s]
        ELSE [ok |-> TRUE, val |-> Take(s, n), rest |-> Drop(s, n)]

\* The verb %d: an optional sign, then at least one decimal digit.
ScanInt(s) ==
    LET signed == Len(s) > 0 /\ s[1] \in {"+", "-"}
        t      == IF signed THEN Drop(s, 1) ELSE s
        n      == RunLen(t, DigitSet, TRUE)
        mag    == ParseNat(Take(t, n))
    IN  IF n = 0 THEN [ok |-> FALSE, val |-> 0, rest |-> s]
        ELSE [ok |-> TRUE,
              val |-> IF signed /\ s[1] = "-" THEN 0 - mag ELSE mag,
              rest |-> Drop(t, n)]

VALUE == <<"V", "A", "L", "U", "E">>

NoScan(n) == [n |-> n, key |-> <<>>, flags |-> 0, bytes |-> 0]

\* fmt.Sscanf(header, "VALUE %s %d %d\r\n", &key, &flags, &bytes): the
\* number n of items scanned and their values.  What follows the third item
\* is matched against the format's "\r\n" only after n has reached 3.
Sscanf(header) ==
    IF ~HasPrefix(header, VALUE) THEN NoScan(0)
    ELSE
    LET s1 == FormatSpace(Drop(header, Len(VALUE)))
        k  == ScanString(s1.rest)
        s2 == FormatSpace(k.rest)
        f  == ScanInt(s2.rest)
        s3 == FormatSpace(f.rest)
        b  == ScanInt(s3.rest)
    IN  IF ~s1.ok \/ ~k.ok THEN NoScan(0)
        ELSE IF ~s2.ok \/ ~f.ok THEN [NoScan(1) EXCEPT !.key = k.val]
        ELSE IF ~s3.ok \/ ~b.ok
             THEN [n |-> 2, key |-> k.val, flags |-> f.val, bytes |-> 0]
        ELSE [n |-> 3, key |-> k.val, flags |-> f.val, bytes |-> b.val]

(***************************************************************************)
(* TransportSocket.  A transport value t holds the fields of the socket    *)
(* (conn, and the reader's buffer rbuf in front of the stream wire), the   *)
(* counts of dials and closes, the data of the last successful Write and   *)
(* the trace io of the socket calls made during the current operation.     *)
(***************************************************************************)

Log(t, e) == [t EXCEPT !.io = Append(@, e)]

connect_AlwaysDials(t, dialOk) ==
    LET c == Log(t, "connect")
    IN  IF ~dialOk
        THEN [t |-> [Log(c, "dial") EXCEPT !.dials = @ + 1],
              err |-> "cannot connect"]
        ELSE [t |-> [Log(c, "dial") EXCEPT !.dials = @ + 1, !.conn = "open",
                                           !.rbuf = <<>>, !.wire = <<>>],
              err |-> "nil"]

connect_FailedDialSticks(t, dialOk) ==
    LET c == Log(t, "connect")
    IN  IF t.conn # "nil" THEN [t |-> c, err |-> "nil"]
        ELSE IF ~dialOk
        THEN [t |-> [Log(c, "dial") EXCEPT !.dials = @ + 1, !.conn = "closed"],
              err |-> "cannot connect"]
        ELSE [t |-> [Log(c, "dial") EXCEPT !.dials = @ + 1, !.conn = "open",
                                           !.rbuf = <<>>, !.wire = <<>>],
              err |-> "nil"]

\* (t *TransportSocket) connect.  dialOk: whether net.Dial succeeds.
connect(t, dialOk) ==
    LET c == Log(t, "connect")
    IN  IF t.conn # "nil" THEN [t |-> c, err |-> "nil"]
        ELSE IF ~dialOk
        THEN [t |-> [Log(c, "dial") EXCEPT !.dials = @ + 1],
              err |-> "cannot connect"]
        ELSE [t |-> [Log(c, "dial") EXCEPT !.dials = @ + 1, !.conn = "open",
                                           !.rbuf = <<>>, !.wire = <<>>],
              err |-> "nil"]

\* (t *TransportSocket) Close: conn.Close() unless conn is nil; conn is not
\* reset to nil and the reader keeps its buffer.  The closed socket drops
\* the bytes it had not yet handed to the reader.
TransportClose(t) ==
    IF t.conn = "nil" THEN t
    ELSE [Log(t, "close") EXCEPT !.conn = "closed", !.closes = @ + 1,
                                 !.wire = <<>>]

\* (t *TransportSocket) Write.  A closed conn refuses the write; on an open
\* one env.writeOk decides, and the server's reply env.resp to the data
\* written then enters the stream.
Write(t, data, env) ==
    IF t.conn = "open" /\ env.writeOk
    THEN [t |-> [Log(t, "write") EXCEPT !.sent = data,
                                        !.wire = @ \o env.resp],
          err |-> "nil"]
    ELSE [t |-> Log(t, "write"), err |-> "write failed"]

\* The sizes of the piece one read of the stream may bring when avail bytes
\* stand in it: any size from 1 to MaxFill, or all of them.  A read of the
\* stream that finds no byte there fails: the stream has ended.  (A peer
\* that stays connected and silent would block the read instead; such a
\* call never returns and is not represented.)
MaxFill == 1

FillSizes(avail) == {j \in 1..avail : j <= MaxFill \/ j = avail}

\* reader.ReadString('\n'): the bytes up to and including the first LF.  The
\* reader fills its buffer from the stream piece by piece, so when the LF
\* comes from the stream the piece that brought it may go on behind it, up
\* to q.  Without an LF every byte is consumed and the read fails at the
\* end of the stream.
ReadLine(t) ==
    LET data == t.rbuf \o t.wire
        p    == IndexOf(data, "LF")
    IN  IF p = 0
        THEN {[t |-> [Log(t, "readline") EXCEPT !.rbuf = <<>>, !.wire = <<>>],
               str |-> <<>>, got |-> 0, err |-> "EOF"]}
        ELSE IF p <= Len(t.rbuf)
        THEN {[t |-> [Log(t, "readline") EXCEPT !.rbuf = Drop(@, p)],
               str |-> Take(data, p), got |-> p, err |-> "nil"]}
        ELSE {[t |-> [Log(t, "readline") EXCEPT
                          !.rbuf = SubSeq(data, p + 1, q),
                          !.wire = Drop(data, q)],
               str |-> Take(data, p), got |-> p, err |-> "nil"]
              : q \in {p - 1 + j : j \in FillSizes(Len(data) - p + 1)}}

\* reader.Read(bytes) for len(bytes) = n > 0: at most one read of the stream,
\* and only when the buffer is empty (it takes j >= 1 of the bytes there);
\* then min(n, buffered) bytes are copied and the rest of bytes stays zero.
\* It fails only when no byte at all is left.
ReadCount(t, n) ==
    LET Deliver(u) ==
            LET m == IF n < Len(u.rbuf) THEN n ELSE Len(u.rbuf)
            IN  [t |-> [Log(u, "read") EXCEPT !.rbuf = Drop(@, m)],
                 str |-> Take(u.rbuf, m) \o Zeros(n - m),
                 got |-> m, err |-> "nil"]
    IN  IF Len(t.rbuf) > 0 THEN {Deliver(t)}
        ELSE IF Len(t.wire) = 0
        THEN {[t |-> Log(t, "read"), str |-> <<>>, got |-> 0, err |-> "EOF"]}
        ELSE {Deliver([t EXCEPT !.rbuf = Take(t.wire, j),
                                !.wire = Drop(t.wire, j)])
              : j \in FillSizes(Len(t.wire))}

\* (t *TransportSocket) Read(bytes), n = len(bytes): the outcomes, each with
\* the string returned (str) and the number of bytes taken from the stream.
Read(t, n) == IF n = 0 THEN ReadLine(t) ELSE ReadCount(t, n)

(***************************************************************************)
(* Memcached                                                               *)
(***************************************************************************)

\* eof := "END\r\n"
eof == <<"E", "N", "D", "CR", "LF">>
rnEof == CRLF \o eof
rnEofLen == Len(rnEof)

STORED_LINE == <<"S", "T", "O", "R", "E", "D", "CR", "LF">>
DELETED_LINE == <<"D", "E", "L", "E", "T", "E", "D", "CR", "LF">>
ERROR_LINE == <<"E", "R", "R", "O", "R", "CR", "LF">>
CLIENT_ERROR_ == <<"C", "L", "I", "E", "N", "T", "_", "E", "R", "R", "O", "R", "SP">>
SERVER_ERROR_ == <<"S", "E", "R", "V", "E", "R", "_", "E", "R", "R", "O", "R", "SP">>

\* What an operation hands back: the transport after it, the value and the
\* error returned (err "nil" for none, with the text the message quotes),
\* and what it read on the way: the first line, the bytes that stood next in
\* the stream when the trailer was read (ahead), the trailer buffer, and the
\* byte counts asked of and delivered by the payload read.
Result(t, ret, err, text) ==
    [t |-> t, ret |-> ret, err |-> err, text |-> text, line |-> <<>>,
     ahead |-> <<>>, trailer |-> <<>>, want |-> 0, got |-> 0]

\* (m *Memcached) Close
Close(t) == TransportClose(t)

Classify_NoErrorLines(t, cmd, line) ==
    [Result(t, line, "nil", <<>>) EXCEPT !.line = line]

\* The end of command: the first line read is an error line of the
\* protocol, or it is handed to the operation.
Classify(t, cmd, line) ==
    IF line = ERROR_LINE
      THEN [Result(t, <<>>, "nonexistent command", cmd) EXCEPT !.line = line]
    ELSE IF HasPrefix(line, CLIENT_ERROR_) \/ HasPrefix(line, SERVER_ERROR_)
      THEN [Result(t, <<>>, "error", line) EXCEPT !.line = line]
    ELSE [Result(t, line, "nil", <<>>) EXCEPT !.line = line]

\* (m *Memcached) command: connect, write cmd and the line end, read one
\* line, classify it.
command(t, cmd, env) ==
    LET c == connect(t, env.dialOk)
        w == Write(c.t, cmd \o CRLF, env)
    IN  IF c.err # "nil" THEN {Result(c.t, <<>>, "cannot connect", <<>>)}
        ELSE IF w.err # "nil" THEN {Result(Close(w.t), <<>>, "write error", <<>>)}
        ELSE {IF r.err # "nil"
                THEN Result(Close(r.t), <<>>, "read error", <<>>)
              ELSE Classify(r.t, cmd, r.str)
              : r \in Read(w.t, 0)}

Set_NegativeTtlAsZero(t, key, value, ttl, env) ==
    IF isValid(key) # "nil" THEN {Result(t, <<>>, isValid(key), <<>>)}
    ELSE
    LET cmd == <<"s", "e", "t", "SP">> \o key \o <<"SP", "0", "SP">>
               \o FmtInt(IF ttl < 0 THEN 0 ELSE ttl) \o <<"SP">>
               \o FmtInt(Len(value)) \o CRLF \o value
    IN  {IF r.err # "nil" THEN r
         ELSE IF r.ret # STORED_LINE
           THEN [r EXCEPT !.ret = <<>>, !.err = "value is not stored", !.text = r.ret]
         ELSE [r EXCEPT !.ret = <<>>]
         : r \in command(t, cmd, env)}

\* (m *Memcached) Set
Set(t, key, value, ttl, env) ==
    IF isValid(key) # "nil" THEN {Result(t, <<>>, isValid(key), <<>>)}
    ELSE
    LET cmd == <<"s", "e", "t", "SP">> \o key \o <<"SP", "0", "SP">> \o FmtInt(ttl) \o <<"SP">>
               \o FmtInt(Len(value)) \o CRLF \o value
    IN  {IF r.err # "nil" THEN r
         ELSE IF r.ret # STORED_LINE
           THEN [r EXCEPT !.ret = <<>>, !.err = "value is not stored", !.text = r.ret]
         ELSE [r EXCEPT !.ret = <<>>]
         : r \in command(t, cmd, env)}

CheckTrailer_ClosesOnMismatch(h, dataBuf, e) ==
    IF e.err # "nil" THEN [h EXCEPT !.t = e.t, !.err = e.err]
    ELSE IF e.str # rnEof
      THEN [h EXCEPT !.t = Close(e.t), !.trailer = e.str,
                     !.err = "unexpected end", !.text = e.str]
    ELSE [h EXCEPT !.t = e.t, !.trailer = e.str, !.ret = dataBuf]

CheckTrailer_NoCompare(h, dataBuf, e) ==
    IF e.err # "nil" THEN [h EXCEPT !.t = e.t, !.err = e.err]
    ELSE [h EXCEPT !.t = e.t, !.trailer = e.str, !.ret = dataBuf]

\* The end of Get: e is the outcome of the read of the trailer, h the
\* result so far and dataBuf the payload buffer.
CheckTrailer(h, dataBuf, e) ==
    IF e.err # "nil" THEN [h EXCEPT !.t = e.t, !.err = e.err]
    ELSE IF e.str # rnEof
      THEN [h EXCEPT !.t = e.t, !.trailer = e.str,
                     !.err = "unexpected end", !.text = e.str]
    ELSE [h EXCEPT !.t = e.t, !.trailer = e.str, !.ret = dataBuf]

\* Get from the payload on: Read into a buffer of the declared length (a
\* buffer of length 0 makes Read read a line, and stays empty), then Read
\* into a buffer of len(rnEof) bytes.
ReadPayload(h, bytes) ==
    UNION {
        IF d.err # "nil" THEN {[h EXCEPT !.t = d.t, !.err = d.err]}
        ELSE
        LET dataBuf == IF bytes = 0 THEN <<>> ELSE d.str
            hd == [h EXCEPT !.got = d.got,
                            !.ahead = Take(d.t.rbuf \o d.t.wire, rnEofLen)]
        IN  {CheckTrailer(hd, dataBuf, e) : e \in Read(d.t, rnEofLen)}
        : d \in Read(h.t, bytes)}

GetValue_NoEofCheck(r) ==
    LET sc == Sscanf(r.line)
        h  == [r EXCEPT !.ret = <<>>, !.want = sc.bytes]
    IN  IF sc.n # 3
          THEN {[h EXCEPT !.want = 0, !.err = "cannot parse header", !.text = r.line]}
        ELSE IF sc.bytes < 0 THEN {[h EXCEPT !.err = "panic"]}
        ELSE ReadPayload(h, sc.bytes)

\* The rest of Get once command has returned the header line r.line: the
\* END line is "no value"; otherwise the header is scanned, and
\* make([]byte, bytes) panics when bytes is negative.
GetValue(r) ==
    LET sc == Sscanf(r.line)
        h  == [r EXCEPT !.ret = <<>>, !.want = sc.bytes]
    IN  IF r.line = eof THEN {[r EXCEPT !.ret = <<>>]}
        ELSE IF sc.n # 3
          THEN {[h EXCEPT !.want = 0, !.err = "cannot parse header", !.text = r.line]}
        ELSE IF sc.bytes < 0 THEN {[h EXCEPT !.err = "panic"]}
        ELSE ReadPayload(h, sc.bytes)

Get_ChecksEchoedKey(t, key, env) ==
    IF isValid(key) # "nil" THEN {Result(t, <<>>, isValid(key), <<>>)}
    ELSE UNION {IF r.err # "nil" THEN {r}
                ELSE IF r.line # eof /\ Sscanf(r.line).n = 3 /\ Sscanf(r.line).key # key
                  THEN {[r EXCEPT !.ret = <<>>, !.err = "cannot parse header",
                                  !.text = r.line]}
                ELSE GetValue(r)
                : r \in command(t, <<"g", "e", "t", "SP">> \o key, env)}

Get_NoValidation(t, key, env) ==
    UNION {IF r.err # "nil" THEN {r} ELSE GetValue(r)
           : r \in command(t, <<"g", "e", "t", "SP">> \o key, env)}

\* (m *Memcached) Get
Get(t, key, env) ==
    IF isValid(key) # "nil" THEN {Result(t, <<>>, isValid(key), <<>>)}
    ELSE UNION {IF r.err # "nil" THEN {r} ELSE GetValue(r)
                : r \in command(t, <<"g", "e", "t", "SP">> \o key, env)}

Delete_AcceptsAnyLine(t, key, env) ==
    IF isValid(key) # "nil" THEN {Result(t, <<>>, isValid(key), <<>>)}
    ELSE {IF r.err # "nil" THEN r ELSE [r EXCEPT !.ret = <<>>]
          : r \in command(t, <<"d", "e", "l", "e", "t", "e", "SP">> \o key, env)}

\* (m *Memcached) Delete
Delete(t, key, env) ==
    IF isValid(key) # "nil" THEN {Result(t, <<>>, isValid(key), <<>>)}
    ELSE {IF r.err # "nil" THEN r
          ELSE IF r.ret # DELETED_LINE
            THEN [r EXCEPT !.ret = <<>>, !.err = "delete failed", !.text = r.ret]
          ELSE [r EXCEPT !.ret = <<>>]
          : r \in command(t, <<"d", "e", "l", "e", "t", "e", "SP">> \o key, env)}

(***************************************************************************)
(* The server and the network: what the client's socket calls meet.        *)
(***************************************************************************)

MaxCalls == 3
MaxFaults == 1
MaxValueLen == 5

\* The keys the caller passes: the empty key, a valid key, a key with a
\* space inside, and a key one byte longer than the limit.
Keys == {<<>>, <<"k">>, <<"k", "SP", "x">>, Repeat("k", MaxKeyLen + 1)}

ValidKeys == {k \in Keys : isValid(k) = "nil"}

\* The values the caller passes, one of each length: the last bytes of
\* a...a\r\nEND\r\n, so that the longer ones hold a CR LF and a literal
\* END\r\n.
ValueOfLen(n) ==
    LET tail == rnEof
    IN  IF n <= Len(tail) THEN Drop(tail, Len(tail) - n)
        ELSE Repeat("a", n - Len(tail)) \o tail

\* The (value, ttl) pairs the caller passes to Set: the empty value, CR LF,
\* and the longest value; a zero, a negative and a positive ttl.
SetArgs == {[value |-> ValueOfLen(0), ttl |-> 0],
            [value |-> ValueOfLen(2), ttl |-> 0 - 1],
            [value |-> ValueOfLen(MaxValueLen), ttl |-> 10]}

\* The server's entry for a key it does not hold; deleted tells whether it
\* held one that a delete command removed.
NoValue == [has |-> FALSE, val |-> <<>>, deleted |-> FALSE]

NOT_FOUND_LINE == <<"N", "O", "T", "_", "F", "O", "U", "N", "D", "CR", "LF">>

\* The reply the wire protocol documents for a command, given the server's
\* entries st.
HonestReply(op, key, st) ==
    CASE op = "Set" -> STORED_LINE
      [] op = "Get" ->
            IF st[key].has
            THEN VALUE \o <<"SP">> \o key \o <<"SP", "0", "SP">> \o FmtInt(Len(st[key].val))
                 \o CRLF \o st[key].val \o CRLF \o eof
            ELSE eof
      [] op = "Delete" -> IF st[key].has THEN DELETED_LINE ELSE NOT_FOUND_LINE

\* The server's entries once it has carried the command out.
ServerStore(op, key, value, st) ==
    CASE op = "Set" -> [st EXCEPT ![key] = [NoValue EXCEPT !.has = TRUE, !.val = value]]
      [] op = "Get" -> st
      [] op = "Delete" ->
            [st EXCEPT ![key] = [NoValue EXCEPT !.deleted = @ \/ st[key].has \/ st[key].deleted]]

\* Replies a server may also send: the protocol's error lines, status lines
\* of other commands, and malformed or mismatched value replies.
Scripted == {
    <<"E", "R", "R", "O", "R", "CR", "LF">>,
    <<"C", "L", "I", "E", "N", "T", "_", "E", "R", "R", "O", "R", "SP", "x", "CR", "LF">>,
    <<"S", "E", "R", "V", "E", "R", "_", "E", "R", "R", "O", "R", "SP", "x", "CR", "LF">>,
    <<"S", "T", "O", "R", "E", "D", "CR", "LF">>,
    <<"D", "E", "L", "E", "T", "E", "D", "CR", "LF">>,
    <<"E", "N", "D", "CR", "LF">>,
    <<"N", "O", "T", "_", "F", "O", "U", "N", "D", "CR", "LF">>,
    <<"V", "A", "L", "U", "E", "SP", "k", "SP", "0", "CR", "LF">>,
    <<"V", "A", "L", "U", "E", "SP", "k", "SP", "0", "SP", "1", "SP", "9", "CR", "LF", "a", "CR", "LF", "E", "N", "D", "CR", "LF">>,
    <<"V", "A", "L", "U", "X", "SP", "k", "SP", "0", "SP", "1", "CR", "LF", "a", "CR", "LF", "E", "N", "D", "CR", "LF">>,
    <<"V", "A", "L", "U", "E", "SP", "k", "SP", "0", "SP", "-", "1", "CR", "LF">>,
    <<"V", "A", "L", "U", "E", "SP", "j", "SP", "0", "SP", "1", "CR", "LF", "a", "CR", "LF", "E", "N", "D", "CR", "LF">>,
    <<"V", "A", "L", "U", "E", "SP", "k", "SP", "0", "SP", "1", "CR", "LF", "a", "CR", "LF", "E", "N", "X", "CR", "LF">>,
    <<"V", "A", "L", "U", "E", "SP", "k", "SP", "0", "SP", "0", "CR", "LF", "x", "LF", "CR", "LF", "E", "N", "D", "CR", "LF">>
}

\* What one call can meet: whether the dial and the write succeed, and the
\* reply sent (mode "honest": the documented reply; "cut": a proper prefix
\* of it, the stream ending there; "scripted": one of Scripted; "none": the
\* command never reached the server).  Only the choices the call can
\* observe are listed, and a fault or an undocumented reply only while
\* fewer than MaxFaults calls have met one.
Envs(t, op, key, st) ==
    IF isValid(key) # "nil"
    THEN {[dialOk |-> TRUE, writeOk |-> TRUE, mode |-> "none", resp |-> <<>>]}
    ELSE
    LET honest == HonestReply(op, key, st)
        Sent(mode, resp) ==
            [dialOk |-> TRUE, writeOk |-> TRUE, mode |-> mode, resp |-> resp]
        WriteFails ==
            [dialOk |-> TRUE, writeOk |-> FALSE, mode |-> "none", resp |-> <<>>]
        DialFails ==
            [dialOk |-> FALSE, writeOk |-> TRUE, mode |-> "none", resp |-> <<>>]
        Faulty ==
            {Sent("cut", Take(honest, n)) : n \in 0..(Len(honest) - 1)}
            \cup {Sent("scripted", x) : x \in Scripted \ {honest}}
            \cup {WriteFails}
            \cup (IF t.conn = "nil" THEN {DialFails} ELSE {})
    IN  IF t.conn = "closed" THEN {WriteFails}
        ELSE {Sent("honest", honest)}
             \cup (IF faults < MaxFaults THEN Faulty ELSE {})

\* Whether the call met a fault of the network or a reply other than the
\* documented one.  (A write refused by a conn the client itself closed is
\* neither.)
EnvFault(t, env) ==
    \/ ~env.dialOk
    \/ ~env.writeOk /\ t.conn # "closed"
    \/ env.mode \in {"cut", "scripted"}

(***************************************************************************)
(* The state machine: the caller's operations on one client                *)
(***************************************************************************)

\* The transport at the start of an operation.
Transport == [conn |-> conn, rbuf |-> rbuf, wire |-> wire, dials |-> dials,
              closes |-> closes, sent |-> <<>>, io |-> <<>>]

Called(op, key, value, ttl, env, r) ==
    [op |-> op, key |-> key, value |-> value, ttl |-> ttl,
     ret |-> r.ret, err |-> r.err, text |-> r.text, line |-> r.line,
     ahead |-> r.ahead, trailer |-> r.trailer, want |-> r.want, got |-> r.got,
     io |-> r.t.io, sent |-> r.t.sent, preConn |-> conn,
     preUnread |-> rbuf \o wire,
     mode |-> env.mode, resp |-> env.resp]

NoEnv == [dialOk |-> TRUE, writeOk |-> TRUE, mode |-> "none", resp |-> <<>>]

\* The call is over: the socket, the server and the record of the call.
Return(op, key, value, ttl, env, r) ==
    /\ conn' = r.t.conn
    /\ rbuf' = r.t.rbuf
    /\ wire' = r.t.wire
    /\ dials' = r.t.dials
    /\ closes' = r.t.closes
    /\ calls' = calls + 1
    /\ store' = IF env.mode \in {"honest", "cut"}
                THEN ServerStore(op, key, value, store) ELSE store
    /\ faults' = IF EnvFault(Transport, env) THEN faults + 1 ELSE faults
    /\ last' = Called(op, key, value, ttl, env, r)

\* A panic ends the program.
Running == calls < MaxCalls /\ last.err # "panic"

Init ==
    /\ conn = "nil"
    /\ rbuf = <<>>
    /\ wire = <<>>
    /\ store = [k \in ValidKeys |-> NoValue]
    /\ faults = 0
    /\ dials = 0
    /\ closes = 0
    /\ calls = 0
    /\ last = Called("NewMemcached", <<>>, <<>>, 0, NoEnv, Result(Transport, <<>>, "nil", <<>>))

SetCall ==
    /\ Running
    /\ \E key \in Keys, a \in SetArgs :
         \E env \in Envs(Transport, "Set", key, store) :
           \E r \in Set(Transport, key, a.value, a.ttl, env) :
             Return("Set", key, a.value, a.ttl, env, r)

GetCall ==
    /\ Running
    /\ \E key \in Keys :
         \E env \in Envs(Transport, "Get", key, store) :
           \E r \in Get(Transport, key, env) :
             Return("Get", key, <<>>, 0, env, r)

DeleteCall ==
    /\ Running
    /\ \E key \in Keys :
         \E env \in Envs(Transport, "Delete", key, store) :
           \E r \in Delete(Transport, key, env) :
             Return("Delete", key, <<>>, 0, env, r)

CloseCall ==
    /\ Running
    /\ Return("Close", <<>>, <<>>, 0, NoEnv, Result(Close(Transport), <<>>, "nil", <<>>))

Next == SetCall \/ GetCall \/ DeleteCall \/ CloseCall

Spec == Init /\ [][Next]_vars

(***************************************************************************)
(* key.isValid on its own: the keys are every string of at most            *)
(* MaxKeyPrefix bytes of KeyBytes, followed by a run of ordinary bytes     *)
(* that brings the length up to the limit of MaxKeyLen and past it.        *)
(***************************************************************************)

MaxKeyPrefix == 2

KeyBytes == {"k", "!", "~", "HI", "SP", "NUL", "TAB", "LF", "VT", "FF", "CR",
             "US", "DEL"}

KeyPrefixes == UNION {[1..n -> KeyBytes] : n \in 0..MaxKeyPrefix}

KeyPads == {0, MaxKeyLen - 2, MaxKeyLen - 1, MaxKeyLen}

KeyInputs == {pre \o Repeat("k", n) : pre \in KeyPrefixes, n \in KeyPads}

\* A key has been chosen and not yet validated.
KeyInit ==
    /\ conn = "nil"
    /\ rbuf = <<>>
    /\ wire = <<>>
    /\ store = [k \in ValidKeys |-> NoValue]
    /\ faults = 0
    /\ dials = 0
    /\ closes = 0
    /\ calls = 0
    /\ \E k \in KeyInputs :
         last = Called("key", k, <<>>, 0, NoEnv, Result(Transport, <<>>, "nil", <<>>))

ValidateKey ==
    /\ last.op = "key"
    /\ last' = [last EXCEPT !.op = "isValid", !.err = isValid(last.key)]
    /\ UNCHANGED <<conn, rbuf, wire, store, faults, dials, closes, calls>>

KeySpec == KeyInit /\ [][ValidateKey]_vars

(***************************************************************************)
(* The commands of a fresh client on each key of KeyInputs: the key is     *)
(* validated and, when valid, formatted into the command and written.  The *)
(* server answers with the status line of the command.                     *)
(***************************************************************************)

Answer(line) ==
    [dialOk |-> TRUE, writeOk |-> TRUE, mode |-> "scripted", resp |-> line]

KeySet ==
    /\ last.op = "key"
    /\ \E a \in SetArgs :
         \E r \in Set(Transport, last.key, a.value, a.ttl, Answer(STORED_LINE)) :
           Return("Set", last.key, a.value, a.ttl, Answer(STORED_LINE), r)

KeyGet ==
    /\ last.op = "key"
    /\ \E r \in Get(Transport, last.key, Answer(eof)) :
         Return("Get", last.key, <<>>, 0, Answer(eof), r)

KeyDelete ==
    /\ last.op = "key"
    /\ \E r \in Delete(Transport, last.key, Answer(DELETED_LINE)) :
         Return("Delete", last.key, <<>>, 0, Answer(DELETED_LINE), r)

KeyNext == KeySet \/ KeyGet \/ KeyDelete

CommandSpec == KeyInit /\ [][KeyNext]_vars

(***************************************************************************)
(* Properties                                                              *)
(***************************************************************************)

IsCommand == last.op \in {"Set", "Get", "Delete"}

\* How many times the last call made the socket call e.
Count(e) == Cardinality({i \in DOMAIN last.io : last.io[i] = e})

Did(e) == Count(e) > 0

\* The last call read a first response line, and only that.
ReadOneLineOnly == Count("readline") = 1 /\ Count("read") = 0

IsControl(b) == Code(b) <= 31 \/ Code(b) = 127

IsWhitespace(b) == b \in {"SP", "TAB", "LF", "VT", "FF", "CR"}

HasBadByte(k) == \E i \in 1..Len(k) : IsControl(k[i]) \/ IsWhitespace(k[i])

\* C5: isValid accepts exactly the keys of 1 to 250 bytes holding no control
\* byte (0x00-0x1F, 0x7F) and no whitespace byte, and rejects every other
\* key with the error of the first failing rule: empty, then too long, then
\* invalid characters.
C5_KeyValidation ==
    last.op = "isValid" =>
        /\ last.err = "nil" <=> (Len(last.key) \in 1..250 /\ ~HasBadByte(last.key))
        /\ Len(last.key) = 0 => last.err = "empty key"
        /\ Len(last.key) > 250 => last.err = "key too long"
        /\ (Len(last.key) \in 1..250 /\ HasBadByte(last.key)) => last.err = "invalid key"

\* A key of 251 bytes with a space in it has been reported as too long.
C5_Witness ==
    /\ last.op = "isValid"
    /\ Len(last.key) = 251
    /\ \E i \in 1..Len(last.key) : last.key[i] = "SP"
    /\ last.err = "key too long"

\* C1: round trip.  On a fresh client and a server that answers as
\* documented, Set(key, value, ttl) followed by Get(key) returns exactly the
\* value, with no error, for every valid key and every value.
C1_RoundTrip ==
    (/\ last.op = "Get"
     /\ calls = 2
     /\ faults = 0
     /\ last.preConn = "open"
     /\ isValid(last.key) = "nil"
     /\ store[last.key].has)
    => (last.err = "nil" /\ last.ret = store[last.key].val)

\* C2: a command called when the connection has been closed (by the
\* caller's Close or by the client after a failed write or read) dials again
\* before it writes.
C2_RedialAfterClose ==
    (IsCommand /\ isValid(last.key) = "nil" /\ last.preConn = "closed")
    => (Did("dial") /\ last.io[1] = "connect" /\ last.io[2] = "dial")

IsIOError == last.err \in {"write error", "read error", "EOF"}

\* C3: an operation that returns an I/O error (a failed write, a failed read
\* of the first line, a failed read of the payload or of the trailer in Get)
\* has closed the connection before returning.
C3_IOFaultCloses ==
    (IsCommand /\ IsIOError)
    => (conn = "closed" /\ last.io[Len(last.io)] = "close")

\* C4: Set, Get and Delete called with a key that fails validation return
\* the validation error and make no call on the transport at all: no
\* connect, no dial, no write, no read; the connection is as it was.
C4_InvalidKeyNoIO ==
    (IsCommand /\ isValid(last.key) # "nil")
    => /\ last.err = isValid(last.key)
       /\ last.err \in {"empty key", "key too long", "invalid key"}
       /\ last.ret = <<>>
       /\ last.io = <<>>
       /\ last.sent = <<>>
       /\ conn = last.preConn
       /\ rbuf \o wire = last.preUnread

\* A Get with an invalid key has returned while a connection was open.
C4_Witness ==
    /\ last.op = "Get"
    /\ last.err = "invalid key"
    /\ last.preConn = "open"
    /\ conn = "open"

\* C6: when the first response line of a Get is exactly END\r\n, Get
\* returns the empty value with no error and reads nothing more; so a Get of
\* a key absent at a server that answers as documented, on a connection with
\* nothing unread, returns "no value".
C6_AbsentKeyNoValue ==
    /\ (last.op = "Get" /\ last.line = eof)
       => (last.err = "nil" /\ last.ret = <<>> /\ ReadOneLineOnly)
    /\ (/\ last.op = "Get"
        /\ last.mode = "honest"
        /\ last.preUnread = <<>>
        /\ ~store[last.key].has)
       => (last.err = "nil" /\ last.ret = <<>> /\ ReadOneLineOnly)

\* A Get of a key that was set and then deleted has been answered END\r\n
\* and returned no value.
C6_Witness ==
    /\ last.op = "Get"
    /\ faults = 0
    /\ isValid(last.key) = "nil"
    /\ store[last.key].deleted
    /\ last.line = eof
    /\ last.err = "nil"
    /\ last.ret = <<>>

\* The command a call wrote, without the line end that command appends.
SentCmd == SubSeq(last.sent, 1, Len(last.sent) - Len(CRLF))

OkLine == IF last.op = "Set" THEN STORED_LINE ELSE DELETED_LINE

ReadStatusLine == last.op \in {"Set", "Delete"} /\ last.line # <<>>

IsErrorLine(l) == HasPrefix(l, CLIENT_ERROR_) \/ HasPrefix(l, SERVER_ERROR_)

\* C8: in every operation a first line ERROR\r\n yields the unknown-command
\* error, and a first line starting with "CLIENT_ERROR " or "SERVER_ERROR "
\* yields the protocol error carrying the line; the operation returns the
\* error, no value, and reads nothing more.
C8_ErrorLinesFirst ==
    /\ (IsCommand /\ last.line = ERROR_LINE)
       => (last.err = "nonexistent command" /\ last.ret = <<>> /\ ReadOneLineOnly)
    /\ (IsCommand /\ IsErrorLine(last.line))
       => (/\ last.err = "error"
           /\ last.text = last.line
           /\ last.ret = <<>>
           /\ ReadOneLineOnly)

\* A Get has been answered with a SERVER_ERROR line.
C8_Witness ==
    /\ last.op = "Get"
    /\ HasPrefix(last.line, SERVER_ERROR_)
    /\ last.err = "error"

\* The tokens of a line: its runs of bytes other than space, CR and LF.
Seps == {"SP", "CR", "LF"}

RECURSIVE Tokens(_)
Tokens(l) ==
    LET body == Drop(l, RunLen(l, Seps, TRUE))
        n    == RunLen(body, Seps, FALSE)
    IN  IF Len(body) = 0 THEN <<>>
        ELSE <<Take(body, n)>> \o Tokens(Drop(body, n))

FourTokenHeader(l) == Len(Tokens(l)) = 4 /\ Tokens(l)[1] = VALUE

\* A Get went on to look at its header: the line is no error line.
GotHeader ==
    /\ last.op = "Get"
    /\ last.line # <<>>
    /\ last.line # ERROR_LINE
    /\ ~IsErrorLine(last.line)

\* C9: a Get whose header is not END\r\n and is not made of exactly the four
\* tokens VALUE <key> <flags> <byte-length> (too few tokens, too many, or a
\* first token other than VALUE) returns the parse error, no value, and
\* reads no payload.
C9_MalformedHeader ==
    (GotHeader /\ last.line # eof /\ ~FourTokenHeader(last.line))
    => (last.err = "cannot parse header" /\ last.ret = <<>> /\ ReadOneLineOnly)

ReturnedValue == GotHeader /\ last.line # eof /\ last.err = "nil"

\* C10: in a Get that has read its payload, the value is returned only if
\* the 7 bytes standing next in the stream are \r\nEND\r\n; whenever the
\* trailer read delivers and those bytes are anything else, Get returns the
\* "unexpected end" error and no value.
C10_TrailerChecked ==
    /\ ReturnedValue => (last.ahead = rnEof /\ last.trailer = rnEof)
    /\ (last.op = "Get" /\ last.trailer # <<>> /\ last.ahead # rnEof)
       => (last.err = "unexpected end" /\ last.ret = <<>>)

\* A Get has read its whole payload, found 7 other bytes behind it, and
\* returned the "unexpected end" error.
C10_Witness ==
    /\ last.op = "Get"
    /\ last.want > 0
    /\ last.got = last.want
    /\ Len(last.ahead) = rnEofLen
    /\ last.ahead # rnEof
    /\ last.err = "unexpected end"
    /\ last.ret = <<>>

\* C11: no operation ever crashes.  Whatever bytes the server sends,
\* including a VALUE header whose byte length is zero or negative, Set, Get
\* and Delete return a result or an error; no panic is reachable.
C11_NoCrash == IsCommand => last.err # "panic"

DialFailed == IsCommand /\ last.err = "cannot connect"

\* C12: a command whose dial fails returns the connection error having
\* made no write and no read, and leaves the transport unconnected; the
\* command after it dials again, and goes on to write unless that dial
\* fails too: it does not fail to connect when the server answers.
C12_DialFailure ==
    [][/\ DialFailed'
          => /\ last'.io = <<"connect", "dial">>
             /\ last'.sent = <<>>
             /\ last'.ret = <<>>
             /\ last'.preConn = "nil"
             /\ conn' = "nil"
             /\ dials' = dials + 1
       /\ (DialFailed /\ IsCommand' /\ isValid(last'.key) = "nil")
          => /\ last'.io[1] = "connect"
             /\ last'.io[2] = "dial"
             /\ dials' = dials + 1
             /\ last'.err = "cannot connect" \/ last'.io[3] = "write"
             /\ last'.mode = "honest"
                => (last'.err # "cannot connect" /\ conn' = "open")
      ]_vars

\* After a dial that failed, a command has dialed again and succeeded.
C12_Witness ==
    /\ IsCommand
    /\ dials = 2
    /\ closes = 0
    /\ last.preConn = "nil"
    /\ last.io[2] = "dial"
    /\ conn = "open"
    /\ last.err = "nil"

ValidCommand == IsCommand /\ isValid(last.key) = "nil"

\* C13: the connection is lazy and reused.  Constructing the client dials
\* nothing; a valid command that finds no connection dials exactly once; a
\* command that finds the connection established connects without dialing;
\* so as long as no call has met an I/O fault and nothing has been closed,
\* there has been exactly one dial once a valid command has run, and none
\* before.
C13_LazyReusedConnection ==
    /\ last.op = "NewMemcached"
       => (dials = 0 /\ conn = "nil" /\ last.io = <<>>)
    /\ (ValidCommand /\ last.preConn = "nil")
       => (Count("dial") = 1 /\ last.io[1] = "connect" /\ last.io[2] = "dial")
    /\ (ValidCommand /\ last.preConn = "open")
       => (/\ Count("dial") = 0
           /\ Count("connect") = 1
           /\ last.io[1] = "connect"
           /\ last.err # "cannot connect"
           /\ Did("write"))
    /\ (faults = 0 /\ closes = 0)
       => /\ dials = (IF conn = "nil" THEN 0 ELSE 1)
          /\ ValidCommand => (conn = "open" /\ dials = 1)

\* The third call, a valid command, has run on the connection that an
\* earlier command dialed.
C13_Witness ==
    /\ ValidCommand
    /\ calls >= 3
    /\ faults = 0
    /\ closes = 0
    /\ last.preConn = "open"
    /\ Count("dial") = 0
    /\ dials = 1
    /\ store[last.key].has

\* The last call, a Get, made its read of the payload and that read
\* succeeded: it went on to the read of the trailer.
PayloadRead == last.op = "Get" /\ Count("readline") + Count("read") = 3

\* C14: length-driven framing in Get.  After a header declaring N bytes,
\* for every N >= 0, a payload read that succeeds has consumed exactly the
\* next N bytes of the stream, and a trailer read that succeeds has
\* delivered exactly the 7 bytes that stood next; neither succeeds after
\* consuming fewer or more bytes than requested.
C14_ExactCountFraming ==
    /\ PayloadRead => last.got = last.want
    /\ (last.op = "Get" /\ last.trailer # <<>>)
       => (Len(last.ahead) = rnEofLen /\ last.trailer = last.ahead)

\* The last call's write succeeded: last.sent is what it wrote.
Wrote == IsCommand /\ Did("write") /\ last.err # "write error"

\* The number a decimal token stands for.
DecValue(tok) ==
    IF Len(tok) > 0 /\ tok[1] = "-" THEN 0 - ParseNat(Drop(tok, 1))
    ELSE ParseNat(tok)

SentFirstLine == Take(last.sent, IndexOf(last.sent, "LF"))

\* C15: each operation writes once, and writes exactly
\* "set <key> 0 <ttl> <len>\r\n<value>\r\n" for Set, with the flags 0, the
\* caller's ttl unchanged (zero and negative ones too) and the byte length
\* of the value, "get <key>\r\n" for Get and "delete <key>\r\n" for Delete.
C15_BytesWritten ==
    /\ IsCommand => Count("write") <= 1
    /\ (Wrote /\ last.op = "Set")
       => /\ last.sent = <<"s", "e", "t", "SP">> \o last.key \o <<"SP", "0", "SP">>
                         \o FmtInt(last.ttl) \o <<"SP">> \o FmtInt(Len(last.value))
                         \o CRLF \o last.value \o CRLF
          /\ Len(Tokens(SentFirstLine)) = 5
          /\ Tokens(SentFirstLine)[3] = <<"0">>
          /\ DecValue(Tokens(SentFirstLine)[4]) = last.ttl
          /\ DecValue(Tokens(SentFirstLine)[5]) = Len(last.value)
          /\ Drop(last.sent, Len(SentFirstLine)) = last.value \o <<"CR", "LF">>
    /\ (Wrote /\ last.op = "Get")
       => last.sent = <<"g", "e", "t", "SP">> \o last.key \o <<"CR", "LF">>
    /\ (Wrote /\ last.op = "Delete")
       => last.sent = <<"d", "e", "l", "e", "t", "e", "SP">> \o last.key \o <<"CR", "LF">>

\* Set("k", "\r\n", -1) has written set k 0 -1 2\r\n\r\n\r\n.
C15_Witness ==
    /\ last.op = "Set"
    /\ last.ttl = 0 - 1
    /\ Count("write") = 1
    /\ last.sent = <<"s", "e", "t", "SP", "k", "SP", "0", "SP", "-", "1", "SP", "2",
                     "CR", "LF", "CR", "LF", "CR", "LF">>

\* C16: Close is idempotent and returns no error.  On a client that never
\* connected it does nothing; the first Close on a connected client closes
\* the underlying connection; every further Close leaves the state as it
\* was and does not close the underlying connection a second time.
C16_CloseIdempotent ==
    last.op = "Close"
    => /\ last.err = "nil"
       /\ last.preConn = "nil" => (last.io = <<>> /\ conn = "nil")
       /\ last.preConn = "open" => (last.io = <<"close">> /\ conn = "closed")
       /\ last.preConn = "closed" => (last.io = <<>> /\ conn = "closed")

FramingError ==
    last.op = "Get" /\ last.err \in {"cannot parse header", "unexpected end"}

\* C17: a Get that returns the header parse error or the "unexpected end"
\* error has not closed the connection, which stays established; the next
\* command runs on that same connection and does not dial.
C17_FramingErrorKeepsConn ==
    [][/\ FramingError'
          => /\ conn' = "open"
             /\ closes' = closes
             /\ ~Did("close")'
             /\ dials' = (IF last'.preConn = "open" THEN dials ELSE dials + 1)
       /\ (FramingError /\ ValidCommand')
          => /\ last'.preConn = "open"
             /\ Count("dial")' = 0
             /\ dials' = dials
             /\ last'.io[1] = "connect"
             /\ last'.io[2] = "write"
      ]_vars

\* A Get on an established connection has returned the "unexpected end"
\* error and left the connection open.
C17_Witness ==
    /\ last.op = "Get"
    /\ last.err = "unexpected end"
    /\ last.preConn = "open"
    /\ conn = "open"
    /\ Count("dial") = 0
    /\ Count("close") = 0
    /\ calls < MaxCalls

\* The key echoed in the header the last Get read.
EchoedKey == Sscanf(last.line).key

\* The last call is a Get on a stream with nothing unread whose reply opens
\* with a header of three scanned items: VALUE <key> <flags> <bytes>.
GotValueReply ==
    /\ GotHeader
    /\ last.line # eof
    /\ last.preUnread = <<>>
    /\ Sscanf(last.line).n = 3
    /\ HasPrefix(last.resp, VALUE \o <<"SP">> \o EchoedKey \o <<"SP">>)

\* The reply resp with the key e in the place of the echoed key old.
WithEchoedKey(resp, old, e) ==
    VALUE \o <<"SP">> \o e \o Drop(resp, Len(VALUE) + 1 + Len(old))

OtherKeys == {<<"k">>, <<"j">>, <<"z", "z">>}

\* The transport as the last call found it, when nothing stood unread.
PreTransport ==
    [conn |-> last.preConn, rbuf |-> <<>>, wire |-> <<>>, dials |-> 0,
     closes |-> 0, sent |-> <<>>, io |-> <<>>]

\* C18: Get never compares the key echoed in the VALUE header with the key
\* requested.  Whatever Get does with a reply, it does the same with the
\* reply that differs only in the echoed key: same value, same error, same
\* bytes consumed; and under a header that echoes another key, a Get that
\* succeeds returns the payload bytes that stand behind the header.
C18_EchoedKeyIgnored ==
    GotValueReply
    => /\ \A e \in OtherKeys :
            \E r \in Get(PreTransport, last.key,
                         [dialOk |-> TRUE, writeOk |-> TRUE, mode |-> last.mode,
                          resp |-> WithEchoedKey(last.resp, EchoedKey, e)]) :
               /\ r.ret = last.ret
               /\ r.err = last.err
               /\ r.trailer = last.trailer
               /\ r.ahead = last.ahead
               /\ r.want = last.want
               /\ r.got = last.got
               /\ r.t.io = last.io
               /\ r.t.conn = conn
               /\ r.t.rbuf = rbuf
               /\ r.t.wire = wire
       /\ (EchoedKey # last.key /\ last.err = "nil" /\ last.want > 0)
          => last.ret = SubSeq(last.resp, Len(last.line) + 1,
                               Len(last.line) + last.want)

\* Get("k") has been answered VALUE j 0 1\r\na\r\nEND\r\n and has returned
\* the value "a".
C18_Witness ==
    /\ GotValueReply
    /\ last.key = <<"k">>
    /\ EchoedKey = <<"j">>
    /\ last.err = "nil"
    /\ last.ret = <<"a">>

\* C19: requests and responses stay in step.  While the server has answered
\* every command with the documented reply and the network has not failed,
\* a command that starts on an open connection finds nothing unread in the
\* stream, and a Get, whether it returns a value or an error, has consumed
\* its whole response or closed the connection.
C19_InSync ==
    (ValidCommand /\ faults = 0)
    => /\ last.preConn = "open" => last.preUnread = <<>>
       /\ last.op = "Get" => (rbuf \o wire = <<>> \/ conn = "closed")

\* How many bytes of s are the byte b.
CountByte(s, b) == Cardinality({i \in 1..Len(s) : s[i] = b})

Verb ==
    CASE last.op = "Set" -> <<"s", "e", "t">>
      [] last.op = "Get" -> <<"g", "e", "t">>
      [] last.op = "Delete" -> <<"d", "e", "l", "e", "t", "e">>

\* C20: no command can be injected through the key.  Whenever a command is
\* written, its key holds no CR, LF or space and is exactly one token, the
\* second, of the first line written; Get and Delete write exactly one line,
\* whose only CR LF is its end.
C20_NoInjection ==
    Wrote
    => /\ \A i \in 1..Len(last.key) : last.key[i] \notin {"CR", "LF", "SP"}
       /\ Tokens(SentFirstLine)[1] = Verb
       /\ Tokens(SentFirstLine)[2] = last.key
       /\ Len(Tokens(SentFirstLine)) = (IF last.op = "Set" THEN 5 ELSE 2)
       /\ CountByte(SentFirstLine, "SP") = (IF last.op = "Set" THEN 4 ELSE 1)
       /\ CountByte(SentFirstLine, "CR") = 1
       /\ SubSeq(SentFirstLine, Len(SentFirstLine) - 1, Len(SentFirstLine)) = <<"CR", "LF">>
       /\ last.op \in {"Get", "Delete"}
          => (last.sent = SentFirstLine /\ CountByte(last.sent, "LF") = 1)

\* Delete has written the command for a key of 250 bytes that opens with
\* the bytes ! and ~.
C20_Witness ==
    /\ Wrote
    /\ last.op = "Delete"
    /\ Len(last.key) = MaxKeyLen
    /\ last.key[1] = "!"
    /\ last.key[2] = "~"
    /\ Len(last.sent) = 7 + MaxKeyLen + 2

====
